---- MODULE Spec2Model ----
(***************************************************************************)
(* A model of the STIR feature selector                                    *)
(* (src/ITMO_FS/filters/multivariate/STIR.py): the class STIR with its     *)
(* attributes, its pure helpers max_diff, distance_matrix, find_neighbors  *)
(* and its operations fit, transform, fit_transform.                       *)
(*                                                                         *)
(* Numbers.  Feature values are small naturals.  Every quantity the code   *)
(* derives from them is a rational; the model carries numerators over a    *)
(* common denominator (Scale for a value divided by a range, ScoreDen for  *)
(* a score), so that comparisons and tests against zero are exact.         *)
(* Floating-point rounding is not modelled.  distance_matrix holds the     *)
(* SQUARES of the Euclidean distances: the code only sorts by distance,    *)
(* and squaring keeps the order of non-negative numbers.                   *)
(*                                                                         *)
(* Indices are the source's: samples 0..n-1, features 0..n_features-1.     *)
(* Python lists and 1-d arrays that are built by appending are sequences.  *)
(*                                                                         *)
(* Sorting.  np.argsort is called with its default kind, which does not    *)
(* promise an order for equal keys.  For the rows of the distance matrix   *)
(* the order of equal keys follows some ranking of the sample indices (the *)
(* identity ranking is the stable sort); for the scores it is any order.   *)
(* argsort is a function all the same: within one behaviour it returns    *)
(* the same order for the same array.                                      *)
(*                                                                         *)
(* A behaviour is one STIR instance and one caller holding a matrix X and  *)
(* labels y: the caller passes them to every fit, transform and            *)
(* fit_transform; k and feature_names vary from call to call.  Spec fits   *)
(* the instance at most once; SpecRefit fits it again, on narrower data.   *)
(***************************************************************************)
EXTENDS Integers, Sequences, FiniteSets, TLC

\* ---------------------------------------------------------------- bounds
MaxSamples == 4
MaxFeatures == 2
RefitFeatures == 1
MaxVal == 1
MaxK == 2
MaxKeep == 2
MaxFits == 2

\* Class labels: only equality between labels is used by the code.
Labels == {-1, 1}

\* ------------------------------------------------------- small utilities
SetMax(S) == CHOOSE x \in S : \A e \in S : e <= x

SetMin(S) == CHOOSE x \in S : \A e \in S : x <= e

RECURSIVE Factorial(_)
Factorial(m) == IF m <= 1 THEN 1 ELSE m * Factorial(m - 1)

RECURSIVE Pow10(_)
Pow10(e) == IF e <= 0 THEN 1 ELSE 10 * Pow10(e - 1)

Abs(a) == IF a < 0 THEN -a ELSE a

\* f itself.  Comparing a function makes TLC tabulate it once, instead of
\* computing the defining expression again at every application.
Tab(f) == IF f = f THEN f ELSE f

Min2(a, b) == IF a < b THEN a ELSE b

Reverse(s) == [p \in 1..Len(s) |-> s[Len(s) + 1 - p]]

\* s[:m] of Python for m >= 0
Take(s, m) == SubSeq(s, 1, Min2(m, Len(s)))

\* s[1:(k + 1)] of Python for k >= 0
Slice1(s, k) == SubSeq(s, 2, Min2(k + 1, Len(s)))

\* -------------------------------------------------------------- the data
n_samples_of(X) == Cardinality(DOMAIN X)
n_features_of(X) == Cardinality(DOMAIN X[0])
SampleIdx(X) == 0..(n_samples_of(X) - 1)
FeatureIdx(X) == 0..(n_features_of(X) - 1)

\* The common denominator of value / range for ranges in 1..MaxVal.
Scale == Factorial(MaxVal)

\* The decimal exponent of the substitute for a zero range, 1e-14.
EpsExp == 14

\* A range after the zero guard: m * 10^(-e).  Eps is 1e-14.
Eps == [m |-> 1, e |-> EpsExp]
Exact(d) == [m |-> d, e |-> 0]

\* ------------------------------------------------------------- max_diff
max_diff(X) ==
    Tab([f \in FeatureIdx(X) |->
        SetMax({X[i][f] : i \in SampleIdx(X)}) - SetMin({X[i][f] : i \in SampleIdx(X)})])

\* v[v == 0] = 1e-14, after astype('float64')
ZeroGuard_unguarded(v) == Tab([f \in DOMAIN v |-> Exact(v[f])])

ZeroGuard(v) == Tab([f \in DOMAIN v |-> IF v[f] = 0 THEN Eps ELSE Exact(v[f])])

\* a / r for a natural a and a guarded range r, as a numerator over Scale.
\* numpy does not raise on a zero divisor: 0 / 0 is nan (finite = FALSE).
\* For a constant column a is 0 and 0 / 1e-14 is 0.
Quot(a, r) ==
    IF r.m = 0 THEN [finite |-> FALSE, v |-> 0]
    ELSE IF a = 0 THEN [finite |-> TRUE, v |-> 0]
    ELSE [finite |-> TRUE, v |-> a * (Scale \div r.m) * Pow10(r.e)]

\* ------------------------------------------------------ distance_matrix
X_scaled_of(X) ==
    LET max_diff_vec == ZeroGuard(max_diff(X))
        min_vec == Tab([f \in FeatureIdx(X) |-> SetMin({X[i][f] : i \in SampleIdx(X)})])
    IN  Tab([i \in SampleIdx(X) |->
                [f \in FeatureIdx(X) |-> Quot(X[i][f] - min_vec[f], max_diff_vec[f])]])

RECURSIVE SqDist(_, _, _)
SqDist(u, v, F) ==
    IF F = {} THEN 0
    ELSE LET f == CHOOSE g \in F : TRUE
         IN  (u[f].v - v[f].v) * (u[f].v - v[f].v) + SqDist(u, v, F \ {f})

\* pairwise_distances validates its input and raises ValueError on nan/inf.
distance_matrix(X) ==
    LET X_scaled == X_scaled_of(X)
    IN  IF \E i \in SampleIdx(X), f \in FeatureIdx(X) : ~X_scaled[i][f].finite
        THEN [raised |-> TRUE, exc |-> "ValueError: non-finite input"]
        ELSE [raised |-> FALSE,
              d |-> Tab([i \in SampleIdx(X) |->
                            [j \in SampleIdx(X) |->
                                SqDist(X_scaled[i], X_scaled[j], FeatureIdx(X))]])]

\* -------------------------------------------------------------- argsort
\* np.argsort(a) with the default kind: the indices of S in ascending order
\* of a.  The default sort gives no guarantee on the order of equal keys, so
\* every order of the ties is an outcome.
RECURSIVE ArgSorts(_, _)
ArgSorts(a, S) ==
    IF S = {} THEN {<<>>}
    ELSE LET lo == SetMin({a[i] : i \in S})
         IN  UNION {{<<i>> \o s : s \in ArgSorts(a, S \ {i})} :
                        i \in {j \in S : a[j] = lo}}

\* ------------------------------------------------------- find_neighbors
\* Lines 106-112 for one sample, given the argsort outcome `nearest` of its
\* row of distances: the reference label is the label of nearest[0].
RowNeighbors(nearest, y, k) ==
    LET ref == y[nearest[1]]
        IsHit(j) == y[j] = ref
        IsMiss(j) == y[j] # ref
        nearest_hits == SelectSeq(nearest, IsHit)
        nearest_misses == SelectSeq(nearest, IsMiss)
    IN  [hits |-> Slice1(nearest_hits, k), misses |-> Take(nearest_misses, k)]

\* The loop of lines 103-116 over samples 0..upto-1: the three lists.
RECURSIVE Accumulate(_, _, _, _)
Accumulate(nearest_of, y, k, upto) ==
    IF upto = 0 THEN [indexes |-> <<>>, hits |-> <<>>, misses |-> <<>>]
    ELSE LET acc == Accumulate(nearest_of, y, k, upto - 1)
             i == upto - 1
             row == RowNeighbors(nearest_of[i], y, k)
         IN  [indexes |-> acc.indexes \o [j \in 1..k |-> i],
              hits |-> acc.hits \o row.hits,
              misses |-> acc.misses \o row.misses]

\* np.column_stack((a, b)): raises ValueError unless the lengths agree.
CanStack(a, b) == Len(a) = Len(b)
column_stack(a, b) == [p \in 1..Len(a) |-> <<a[p], b[p]>>]

\* find_neighbors once every row's argsort outcome nearest_of[i] is fixed.
find_neighbors(X, y, k, nearest_of) ==
    LET acc == Accumulate(nearest_of, y, k, n_samples_of(X))
    IN  IF ~CanStack(acc.indexes, acc.hits) \/ ~CanStack(acc.indexes, acc.misses)
        THEN [raised |-> TRUE, exc |-> "ValueError: column_stack"]
        ELSE [raised |-> FALSE,
              hitmiss |-> <<column_stack(acc.indexes, acc.hits),
                            column_stack(acc.indexes, acc.misses)>>]

\* The argsort outcome that orders equal keys by rank, where rank maps each
\* index of S to a distinct number; the identity rank is the stable sort.
ArgSortBy(a, S, rank) ==
    LET n == Cardinality(S)
        key == Tab([i \in S |-> a[i] * n + rank[i]])
    IN  Tab([p \in 1..n |->
                CHOOSE i \in S : Cardinality({j \in S : key[j] < key[i]}) = p - 1])

\* The argsort outcomes of the rows of the distance matrix d within one call
\* of find_neighbors: one rule for equal keys is in force during the call, any
\* ranking of the indices.  nearest_of[i] is the outcome for row i.
NearestChoices(d) ==
    {[i \in DOMAIN d |-> ArgSortBy(d[i], DOMAIN d, rank)] : rank \in Permutations(DOMAIN d)}

\* ------------------------------------------------ external collaborators
\* utils.generate_features for an array: the column indices 0..n_features-1,
\* as a sequence (element f+1 is the feature at position f).
generate_features(X) == [p \in 1..n_features_of(X) |-> p - 1]

\* A caller's list of feature names, and the names DataChecker._check_input
\* supplies when the caller passes None.
CustomNames(X) == [p \in 1..n_features_of(X) |-> "col_" \o ToString(p - 1)]
DefaultNames(X) == [p \in 1..n_features_of(X) |-> ToString(p - 1)]
NameArgs == {"None", "custom"}
check_input_names(X, names_arg) ==
    IF names_arg = "None" THEN DefaultNames(X) ELSE CustomNames(X)

\* dict(zip(features, feature_names))
dict_zip(keys, vals) ==
    [key \in {keys[p] : p \in 1..Len(keys)} |->
        vals[CHOOSE p \in 1..Len(keys) : keys[p] = key]]

\* ------------------------------------------------------------------- fit
\* Lines 169-176 for one feature: the sum of |neighbour - sample| *
\* one_over_range[f] over a pair list, as a numerator over Scale.  The range
\* is the guarded one of lines 153-154.
RECURSIVE attr_diff_sum(_, _, _, _)
attr_diff_sum(X, pairs, f, range_f) ==
    IF pairs = <<>> THEN 0
    ELSE Quot(Abs(X[Head(pairs)[2]][f] - X[Head(pairs)[1]][f]), range_f).v
            + attr_diff_sum(X, Tail(pairs), f, range_f)

\* weights[feature_index] = mu_misses - mu_hits
weight_swapped(mu_misses, mu_hits) == mu_hits - mu_misses

weight(mu_misses, mu_hits) == mu_misses - mu_hits

\* The score numerators carry this denominator: Scale from the division by
\* the range, n_samples from the means, n_samples from one_over_m.
ScoreDen(X) == Scale * n_samples_of(X) * n_samples_of(X)

\* Lines 153-183: feature_scores = weights * one_over_m * 1000, as
\* numerators over ScoreDen(X).
scores_of(X, hitmiss) ==
    LET range_vec == ZeroGuard(max_diff(X))
    IN  Tab([f \in FeatureIdx(X) |->
                weight(attr_diff_sum(X, hitmiss[2], f, range_vec[f]),
                       attr_diff_sum(X, hitmiss[1], f, range_vec[f])) * 1000])

\* features[order[::-1][:n_features_to_keep]] for an argsort outcome `order`
select_ascending(features, order, keep) ==
    LET top == Take(order, keep)
    IN  [p \in 1..Len(top) |-> features[top[p] + 1]]

select_one_more(features, order, keep) ==
    LET top == Take(Reverse(order), keep + 1)
    IN  [p \in 1..Len(top) |-> features[top[p] + 1]]

select(features, order, keep) ==
    LET top == Take(Reverse(order), keep)
    IN  [p \in 1..Len(top) |-> features[top[p] + 1]]

\* X[:, self.selected_features.astype(int)]
project(X, selected) ==
    [i \in SampleIdx(X) |-> [p \in 1..Len(selected) |-> X[i][selected[p]]]]

\* ----------------------------------------------------------------- state
VARIABLES
    X,                  \* the caller's feature matrix, passed to every call
    y,                  \* the caller's label vector
    n_features_to_keep, \* self.n_features_to_keep
    feature_scores,     \* self.feature_scores
    top_features,       \* self.top_features
    selected_features,  \* self.selected_features
    feature_names,      \* self.feature_names
    neighbors_index,    \* fit's local neighbors_index, as last returned
    row_order,          \* np.argsort of each row of X's distances, once run
    result,             \* the outcome of the last call on the instance
    fits,               \* the number of fit calls made so far
    names_fit,          \* the fit call that wrote feature_names
    scores_fit          \* the fit call that wrote the scores and the selection

vars == <<X, y, n_features_to_keep, feature_scores, top_features,
          selected_features, feature_names, neighbors_index, row_order, result,
          fits, names_fit, scores_fit>>

attrs == <<feature_scores, top_features, selected_features, feature_names>>

\* An attribute's value: None, an array or dict, or no such attribute.
None == [kind |-> "None"]
NoAttr == [kind |-> "no attribute"]
Array(v) == [kind |-> "array", val |-> v]
Dict(v) == [kind |-> "dict", val |-> v]

Datasets(max_nf) ==
    UNION {[0..(n - 1) -> [0..(nf - 1) -> 0..MaxVal]] :
               n \in 1..MaxSamples, nf \in 1..max_nf}

\* __init__ (lines 21-23) on an instance, and a caller holding X and y.
InitWith(max_nf) ==
    /\ X \in Datasets(max_nf)
    /\ y \in [DOMAIN X -> Labels]
    /\ n_features_to_keep \in 1..MaxKeep
    /\ feature_scores = None
    /\ top_features = None
    /\ selected_features = NoAttr
    /\ feature_names = NoAttr
    /\ neighbors_index = <<<<>>, <<>>>>
    /\ row_order = [known |-> FALSE]
    /\ result = [op |-> "__init__"]
    /\ fits = 0
    /\ names_fit = 0
    /\ scores_fit = 0

\* What transform(X) does in a state where self.selected_features is `sel`.
transform_outcome(sel) ==
    IF sel.kind = "no attribute"
    THEN [raised |-> TRUE, exc |-> "AttributeError: selected_features"]
    ELSE [raised |-> FALSE, val |-> project(X, sel.val)]

\* np.argsort is a function: on the distance rows of the same X it returns
\* what it returned before, and on the same scores the same order.
RowOrders(d) == IF row_order.known THEN {row_order.val} ELSE NearestChoices(d)

ScoreOrders(scores) ==
    LET all == ArgSorts(scores, FeatureIdx(X))
    IN  IF feature_scores.kind = "array" /\ feature_scores.val = scores
        THEN {o \in all : select(generate_features(X), o, n_features_to_keep)
                              = selected_features.val}
        ELSE all

\* fit(X, y, feature_names, k), lines 144-184; with then_transform, the
\* transform(X) of fit_transform (line 229) follows in the same call.
\* feature_names is assigned at line 147, before find_neighbors can raise.
\* The arguments k and feature_names are any of 1..MaxK and NameArgs.
FitCall(op, then_transform) ==
    /\ fits < MaxFits
    /\ fits' = fits + 1
    /\ names_fit' = fits + 1
    /\ LET dm == distance_matrix(X)
           Raise(k, exc) ==
               /\ result' = [op |-> op, k |-> k, raised |-> TRUE, exc |-> exc]
               /\ UNCHANGED <<feature_scores, selected_features, neighbors_index, scores_fit>>
       IN  IF dm.raised
           THEN /\ \E k \in 1..MaxK : Raise(k, dm.exc)
                /\ UNCHANGED row_order
           ELSE \E nearest_of \in RowOrders(dm.d), k \in 1..MaxK :
                  LET nb == find_neighbors(X, y, k, nearest_of)
                  IN  /\ row_order' = [known |-> TRUE, val |-> nearest_of]
                      /\ IF nb.raised THEN Raise(k, nb.exc)
                         ELSE LET scores == scores_of(X, nb.hitmiss)
                              IN  \E order \in ScoreOrders(scores) :
                                    LET sel == Array(select(generate_features(X), order,
                                                            n_features_to_keep))
                                    IN  /\ neighbors_index' = nb.hitmiss
                                        /\ feature_scores' = Array(scores)
                                        /\ selected_features' = sel
                                        /\ scores_fit' = fits + 1
                                        /\ result' =
                                             IF then_transform
                                             THEN [op |-> op, k |-> k] @@ transform_outcome(sel)
                                             ELSE [op |-> op, k |-> k, raised |-> FALSE]
    /\ \E names_arg \in NameArgs :
          feature_names' = Dict(dict_zip(generate_features(X), check_input_names(X, names_arg)))
    /\ UNCHANGED <<X, y, n_features_to_keep, top_features>>

Fit == FitCall("fit", FALSE)

FitTransform == FitCall("fit_transform", TRUE)

\* transform(X) that also stores the selection sorted by column index.
Transform_sorting ==
    /\ result' = [op |-> "transform"] @@ transform_outcome(selected_features)
    /\ selected_features' =
          IF selected_features.kind = "no attribute" THEN selected_features
          ELSE LET sel == selected_features.val
                   vals == [p \in 1..Len(sel) |-> sel[p]]
               IN  Array(ArgSortBy(vals, 1..Len(sel), [p \in 1..Len(sel) |-> p]))
    /\ UNCHANGED <<X, y, n_features_to_keep, feature_scores, top_features,
                   feature_names, neighbors_index, row_order, fits, names_fit,
                   scores_fit>>

\* transform(X), lines 200-203, on an array.
Transform ==
    /\ result' = [op |-> "transform"] @@ transform_outcome(selected_features)
    /\ UNCHANGED <<X, y, n_features_to_keep, feature_scores, top_features,
                   selected_features, feature_names, neighbors_index, row_order,
                   fits, names_fit, scores_fit>>

\* An instance that is fitted at most once, on data of up to MaxFeatures
\* features, and transformed any number of times.
Init == InitWith(MaxFeatures)

FirstFit == fits = 0 /\ Fit

Next == FirstFit \/ Transform

Spec == Init /\ [][Next]_vars

\* An instance that is fitted up to MaxFits times, by fit or fit_transform, on
\* data of up to RefitFeatures features.
InitRefit == InitWith(RefitFeatures)

NextRefit == Fit \/ FitTransform \/ Transform

SpecRefit == InitRefit /\ [][NextRefit]_vars

\* ================================================================ claims
IsFitOp == result.op \in {"fit", "fit_transform"}
FitReturned == IsFitOp /\ ~result.raised
Fitted == selected_features.kind = "array"
Score(f) == feature_scores.val[f]
Selected == selected_features.val

\* The neighbours find_neighbors emitted for sample i: positions and indices.
HitPos(i) == {p \in 1..Len(neighbors_index[1]) : neighbors_index[1][p][1] = i}
MissPos(i) == {p \in 1..Len(neighbors_index[2]) : neighbors_index[2][p][1] = i}
HitSet(i) == {neighbors_index[1][p][2] : p \in HitPos(i)}
MissSet(i) == {neighbors_index[2][p][2] : p \in MissPos(i)}

SameLabelOthers(i) == {j \in DOMAIN X : j # i /\ y[j] = y[i]}
OtherLabel(i) == {j \in DOMAIN X : y[j] # y[i]}
Sufficient(k) ==
    \A i \in DOMAIN X :
        Cardinality(SameLabelOthers(i)) >= k /\ Cardinality(OtherLabel(i)) >= k

\* ---- C1
ScenarioRows == <<<<0, 1>>, <<1, 1>>, <<0, 0>>, <<1, 0>>>>
ScenarioLabels == <<1, 1, -1, -1>>
ScenarioX == [i \in 0..3 |-> [f \in 0..1 |-> ScenarioRows[i + 1][f + 1]]]
ScenarioY == [i \in 0..3 |-> ScenarioLabels[i + 1]]
InScenario ==
    /\ X = ScenarioX
    /\ y = ScenarioY
    /\ n_features_to_keep = 1
    /\ IsFitOp
    /\ result.k = 1

\* C1 as stated: in the scenario X = [[0,1],[1,1],[0,0],[1,0]], y = [1,1,-1,-1],
\* k = 1, n_features_to_keep = 1, fit gives score[0] > score[1] and selects
\* the feature with the higher score.
C1_AsClaimed ==
    InScenario =>
        /\ ~result.raised
        /\ Score(0) > Score(1)
        /\ Selected = <<0>>

\* C1 amended: in the scenario fit gives score[1] > score[0], namely
\* score = [-250, 250], and the single selected feature is feature 1, the one
\* with the higher score.
C1_Scenario ==
    InScenario =>
        /\ ~result.raised
        /\ Score(1) > Score(0)
        /\ Score(0) = -250 * ScoreDen(X)
        /\ Score(1) = 250 * ScoreDen(X)
        /\ Selected = <<1>>

C1_Witness == InScenario /\ ~result.raised /\ Fitted

\* ---- C2
\* The order the claim describes: score descending, equal scores by
\* ascending feature index.
ClaimedRanking ==
    ArgSortBy([f \in FeatureIdx(X) |-> -Score(f)], FeatureIdx(X),
              [f \in FeatureIdx(X) |-> f])

\* C2 as stated: after a successful fit selected_features is the first
\* min(n_features_to_keep, n_features) entries of the features in descending
\* score order with equal scores in ascending index order.
C2_AsClaimed ==
    Fitted => Selected = Take(ClaimedRanking, n_features_to_keep)

\* C2 amended: after a successful fit selected_features holds
\* min(n_features_to_keep, n_features) distinct feature indices in
\* non-increasing score order, and no feature left out scores higher than a
\* selected one; the order of features with equal scores is not fixed.
C2_DescendingOrder ==
    Fitted =>
        /\ Len(Selected) = Min2(n_features_to_keep, n_features_of(X))
        /\ \A p, q \in 1..Len(Selected) :
              p < q => Selected[p] # Selected[q] /\ Score(Selected[p]) >= Score(Selected[q])
        /\ \A f \in FeatureIdx(X), p \in 1..Len(Selected) :
              (\A q \in 1..Len(Selected) : Selected[q] # f) => Score(Selected[p]) >= Score(f)

C2_Witness ==
    /\ FitReturned
    /\ Len(Selected) = 2
    /\ Score(Selected[1]) = Score(Selected[2])
    /\ Selected[1] > Selected[2]
    /\ \E f \in FeatureIdx(X) : Score(f) # 0

\* ---- C3
\* C3 as stated: transform on an instance on which no fit has succeeded fails
\* with a dedicated 'model not fitted' error, not with the error of a
\* missing attribute and not with a result.
C3_AsClaimed ==
    (result.op = "transform" /\ scores_fit = 0) =>
        (result.raised /\ result.exc = "NotFittedError")

\* ---- C4
\* C4 as stated: once a fit has succeeded, feature_names, feature_scores and
\* selected_features all stem from one and the same fit call, whatever calls
\* (failing ones included) followed.
C4_AsClaimed == scores_fit # 0 => names_fit = scores_fit

\* ---- C5
\* C5 as stated: when every sample has at least k other samples of its label
\* and at least k samples of another label, find_neighbors returns, for
\* every sample i, exactly k hits and k misses, the two disjoint and neither
\* containing i.
C5_AsClaimed ==
    (IsFitOp /\ Sufficient(result.k)) =>
        /\ ~result.raised
        /\ \A i \in DOMAIN X :
              /\ Cardinality(HitPos(i)) = result.k
              /\ Cardinality(MissPos(i)) = result.k
              /\ i \notin HitSet(i) \cup MissSet(i)
              /\ HitSet(i) \cap MissSet(i) = {}

\* ---- C6
\* C6 as stated: when some sample has fewer than k other samples of its label
\* or fewer than k samples of another label, fit raises and does not complete.
C6_AsClaimed == (IsFitOp /\ ~Sufficient(result.k)) => result.raised

\* ---- C7
\* C7: after a successful fit the selection holds
\* min(n_features_to_keep, n_features) pairwise distinct valid column indices,
\* and a transform(X) that follows returns n_samples rows of exactly that many
\* columns.
C7_SelectionSize ==
    Fitted =>
        /\ Len(Selected) = Min2(n_features_to_keep, n_features_of(X))
        /\ \A p \in 1..Len(Selected) : Selected[p] \in FeatureIdx(X)
        /\ \A p, q \in 1..Len(Selected) : p # q => Selected[p] # Selected[q]
        /\ result.op \in {"transform", "fit_transform"} =>
              /\ ~result.raised
              /\ DOMAIN result.val = SampleIdx(X)
              /\ \A i \in SampleIdx(X) :
                    Len(result.val[i]) = Min2(n_features_to_keep, n_features_of(X))

C7_Witness ==
    /\ result.op = "transform"
    /\ ~result.raised
    /\ n_features_to_keep < n_features_of(X)
    /\ Sufficient(1)
    /\ \E f \in FeatureIdx(X) : Score(f) > 0

\* ---- C8
IsConstant(f) == \A i, j \in DOMAIN X : X[i][f] = X[j][f]

RECURSIVE RawDiffSum(_, _)
RawDiffSum(pairs, f) ==
    IF pairs = <<>> THEN 0
    ELSE Abs(X[Head(pairs)[2]][f] - X[Head(pairs)[1]][f]) + RawDiffSum(Tail(pairs), f)

\* C8: a column with one value in all samples never makes fit raise (fit
\* raises only for neighbour lists of unequal length), and after a successful
\* fit its score is exactly 0, hence not above the score of any feature whose
\* miss differences exceed its hit differences.
C8_ConstantFeature ==
    /\ (IsFitOp /\ result.raised) => result.exc = "ValueError: column_stack"
    /\ FitReturned =>
          \A f \in FeatureIdx(X) :
              IsConstant(f) =>
                  /\ Score(f) = 0
                  /\ \A g \in FeatureIdx(X) :
                        RawDiffSum(neighbors_index[2], g) > RawDiffSum(neighbors_index[1], g)
                            => Score(f) <= Score(g)

C8_Witness ==
    /\ FitReturned
    /\ Sufficient(result.k)
    /\ \E f, g \in FeatureIdx(X) :
          IsConstant(f) /\ ~IsConstant(g) /\ Score(f) = 0 /\ Score(g) > 0

\* ---- C9
\* C9: a transform on a fitted instance leaves feature_scores,
\* selected_features and feature_names as they are and returns the columns
\* of X at the selected indices in rank order, so a transform that follows
\* another returns the same.
C9_TransformReadsOnly ==
    [][(Fitted /\ result'.op = "transform") =>
          /\ feature_scores' = feature_scores
          /\ selected_features' = selected_features
          /\ feature_names' = feature_names
          /\ ~result'.raised
          /\ result'.val = project(X, Selected)
          /\ result.op = "transform" => result' = result]_vars

C9_Witness ==
    /\ result.op = "transform"
    /\ ~result.raised
    /\ Len(Selected) = 2
    /\ Selected[1] > Selected[2]
    /\ Score(Selected[1]) > Score(Selected[2])

\* ---- C10
\* C10 as stated: every hit find_neighbors emits for sample i has the label
\* y[i] and every miss it emits for i has another label, also when another
\* sample has the feature values of i.
C10_AsClaimed ==
    FitReturned =>
        \A i \in DOMAIN X :
            /\ \A j \in HitSet(i) : y[j] = y[i]
            /\ \A j \in MissSet(i) : y[j] # y[i]

====
